---- MODULE Spec2Model ----
(***************************************************************************)
(* Model of the motor-control server: the PWM registry (pwm-routes), the   *)
(* encoder pipeline (sensor-routes, interrupt version) and the closed-loop *)
(* RPM controller (rpm-control-routes).                                    *)
(*                                                                         *)
(* Every HTTP handler, timer callback and GPIO alert callback runs to      *)
(* completion on the single JavaScript thread, so each is one action.      *)
(*                                                                         *)
(* Real numbers (RPM, PWM before rounding, PID terms) are fixed-point      *)
(* integers in units of 1/SCALE.  Every product of the PID is exact at     *)
(* this resolution for targets that are multiples of 0.01 RPM; the only    *)
(* inexact steps are the encoder's division and the 0.7 / 0.6 / 0.4        *)
(* multiplications, which are floored to 1/SCALE.                          *)
(***************************************************************************)
EXTENDS Integers, Sequences, FiniteSets, TLC

----------------------------------------------------------------------------
(* Bounds of the model *)

MaxTicks == 2
MaxEdges == 2
MaxGpio == 2
MaxTimers == 2
MaxSensorEdges == 3
MaxPeriodEdges == 20
MaxWindupTicks == 6

----------------------------------------------------------------------------
(* Program constants *)

SCALE == 10000
UPDATE_RATE == 100
PULSES_PER_ROTATION == 45
maxPWM == 255
minPWM == 0
baseKick == 4
errorDeadband == 1
LOW_SPEED == 20
DEBOUNCE_US == 5000
WINDOW_US == 1000000
MIN_WINDOW_US == 25000
SAT_LIMIT_MS == 250
INTEGRAL_LIMIT == 100
DEFAULT_PIN == 18
DEFAULT_SENSOR == 1
DEFAULT_FREQUENCY == 1000
MAX_PIN == 27
MAX_FREQUENCY == 8000

(* The GPIO backend's tick is a 32-bit count of microseconds.  The model   *)
(* counts it in units of TICK_UNIT microseconds, so that the counter wraps *)
(* at TICK_WRAP = 2^32 / TICK_UNIT units.                                  *)
TICK_UNIT == 8
TICK_WRAP == 536870912

(* JavaScript's null / undefined, for fields that otherwise hold a         *)
(* non-negative number.                                                    *)
NULL == -1

(* The names that require('./pwm-routes') yields besides the router's own  *)
(* methods: module.exports = router, with router.cleanup = cleanup.        *)
PwmRoutesExports == {"cleanup"}

----------------------------------------------------------------------------
(* Inputs of the commands *)

TargetInputs == {-5, 0, 16, 2000}
ControlPinInputs == {NULL, 19}
SensorInputs == {1, 2}
SensorPinInputs == {21}
EncoderPins == {21, 22}
EdgeDeltas == {0, 3000, 30000, 33000}
InitialTick == 10000
TickInputs == {InitialTick \div TICK_UNIT, TICK_WRAP - 40000 \div TICK_UNIT}
PwmPinInputs == {-1, 18, 19, 28}
DutyInputs == {-1, 0, 100, 255, 256}
FrequencyInputs == {0, 1, 1000, 8000, 8001}

----------------------------------------------------------------------------
(* Arithmetic helpers *)

Max(a, b) == IF a >= b THEN a ELSE b

Min(a, b) == IF a <= b THEN a ELSE b

Abs(a) == IF a >= 0 THEN a ELSE -a

(* Math.round(x) of a fixed-point x, as a fixed-point integer value:       *)
(* floor(x + 0.5).                                                         *)
MathRound(x) == ((x + SCALE \div 2) \div SCALE) * SCALE

(* Math.round(x * 10) / 10 *)
Round10(x) == ((x + SCALE \div 20) \div (SCALE \div 10)) * (SCALE \div 10)

(* floor(a * SCALE / b) for a >= 0, b > 0, computed without leaving the    *)
(* 32-bit integer range: two decimal digits at a time.                     *)
FixDiv(a, b) ==
    LET q0 == a \div b
        r0 == a % b
        q1 == (r0 * 100) \div b
        r1 == (r0 * 100) % b
        q2 == (r1 * 100) \div b
    IN  q0 * SCALE + q1 * 100 + q2

(* floor(k * x / d) for d > 0, computed without leaving the 32-bit integer *)
(* range.                                                                  *)
MulDiv(k, x, d) == k * (x \div d) + (k * (x % d)) \div d

Put(f, k, v) == [x \in (DOMAIN f) \cup {k} |-> IF x = k THEN v ELSE f[x]]

Del(f, k) == [x \in (DOMAIN f) \ {k} |-> f[x]]

Get(f, k, d) == IF k \in DOMAIN f THEN f[k] ELSE d

EmptyMap == [x \in {} |-> 0]

----------------------------------------------------------------------------
VARIABLES
    rpmControlState,   \* the controller's state object
    timers,            \* ids of the intervals that setInterval has live
    tickCount,         \* controller ticks that have run so far
    stopReturned,      \* history: stop has returned and no start was accepted since
    activeSensors,     \* sensorState.activeSensors: sensor -> record
    pulseCounts,       \* sensorState.pulseCounts: pin -> count
    pulseTimes,        \* sensorState.pulseTimes: pin -> window of edge ticks
    rpmFilters,        \* sensorState.rpmFilters: pin -> filtered RPM
    lastEdgeTick,      \* sensorState.lastEdgeTick: pin -> tick
    listeners,         \* Gpio input objects that carry an 'alert' listener
    hwTick,            \* the GPIO backend's tick counter, in TICK_UNIT microseconds
    edgeCount,         \* edges delivered so far
    activePins,        \* the PWM registry: pin -> record
    pwmPigpioAvailable,     \* pwm-routes: hardware mode
    sensorPigpioAvailable,  \* sensor-routes: pigpio library loaded
    running,           \* FALSE once process.exit has been called
    lastOp,            \* the handler that ran last
    req,               \* its input
    resp,              \* its HTTP status (0 for callbacks)
    trace,             \* what it emitted, in order
    drivenPins,        \* history: pins whose last controller command was a non-zero duty
    esp32              \* one ESP32 device's WebSocket and the commands sent over it

ctrlVars == <<rpmControlState, timers, tickCount, stopReturned>>

sensorVars == <<activeSensors, pulseCounts, pulseTimes, rpmFilters,
                lastEdgeTick, listeners, hwTick, edgeCount>>

vars == <<rpmControlState, timers, tickCount, stopReturned, activeSensors, pulseCounts,
          pulseTimes, rpmFilters, lastEdgeTick, listeners, hwTick, edgeCount,
          activePins, pwmPigpioAvailable, sensorPigpioAvailable, running,
          lastOp, req, resp, trace, drivenPins, esp32>>

NoReq == [a |-> 0, b |-> 0, c |-> 0, d |-> 0]

Ev(type, pin, duty, active) ==
    [type |-> type, pin |-> pin, duty |-> duty, active |-> active]

----------------------------------------------------------------------------
(* Initial state: the modules have just been loaded. *)

InitRpmControlState ==
    [active |-> FALSE, targetRPM |-> 0, currentRPM |-> 0, currentPWM |-> 0,
     error |-> 0, controlPin |-> DEFAULT_PIN, sensorNumber |-> DEFAULT_SENSOR,
     lastPulseCount |-> 0, sinceUpdate |-> NULL, controlInterval |-> NULL,
     integralTerm |-> 0, lastError |-> 0, satTimer |-> 0]

(* The command ids that sendCommandToESP32 generates, one per call. *)
CommandIds == {1, 2}

(* The socket's own message handler. *)
ORIGINAL == 0

(* A connected device: ws.onmessage is the socket's own handler, no        *)
(* command has been sent.                                                  *)
InitEsp32 ==
    [onmessage |-> ORIGINAL,
     originalOnMessage |-> [c \in CommandIds |-> NULL],
     outcome |-> [c \in CommandIds |-> "unsent"],
     wire |-> {}]

Init ==
    /\ rpmControlState = InitRpmControlState
    /\ timers = {}
    /\ tickCount = 0
    /\ stopReturned = FALSE
    /\ activeSensors = EmptyMap
    /\ pulseCounts = EmptyMap
    /\ pulseTimes = EmptyMap
    /\ rpmFilters = EmptyMap
    /\ lastEdgeTick = EmptyMap
    /\ listeners = {}
    /\ hwTick \in TickInputs
    /\ edgeCount = 0
    /\ activePins = EmptyMap
    /\ pwmPigpioAvailable \in BOOLEAN
    /\ sensorPigpioAvailable \in BOOLEAN
    /\ running = TRUE
    /\ lastOp = "init"
    /\ req = NoReq
    /\ resp = 0
    /\ trace = <<>>
    /\ drivenPins = {}
    /\ esp32 = InitEsp32

----------------------------------------------------------------------------
(* RPM controller: pure parts *)

(* sendPWMCommand: it calls pwmRoutes.setPWMDirect only if the pwm-routes  *)
(* module exports it.  The result is what the call emits: the command      *)
(* itself and, when the export exists, the backend write.                  *)
sendPWMCommand(pin, dutyCycle) ==
    IF "setPWMDirect" \in PwmRoutesExports
    THEN <<Ev("cmd", pin, dutyCycle, FALSE), Ev("pwmWrite", pin, dutyCycle, FALSE)>>
    ELSE <<Ev("cmd", pin, dutyCycle, FALSE)>>

(* The registry after sendPWMCommand. *)
RegistryAfterSend(reg, pin, dutyCycle) ==
    IF "setPWMDirect" \in PwmRoutesExports
    THEN Put(reg, pin, [dutyCycle |-> dutyCycle \div SCALE,
                        frequency |-> DEFAULT_FREQUENCY,
                        enabled |-> TRUE, gpio |-> pwmPigpioAvailable])
    ELSE reg

broadcastRPMStatus(st) ==
    <<Ev("rpmStatus", st.controlPin, st.currentPWM, st.active)>>

(* baseKick + 0.15 * targetRPM *)
Kick(targetRPM) == baseKick * SCALE + MulDiv(15, targetRPM, 100)

(* calculateCurrentRPM: the controller state after the call, with the      *)
(* returned value in field ret.  elapsed is Date.now() - lastUpdateTime    *)
(* in ms.                                                                  *)
calculateCurrentRPM(st, sensors) ==
    LET known == st.sensorNumber \in DOMAIN sensors
        sensorData == sensors[st.sensorNumber]
        elapsed == st.sinceUpdate
        pulseDelta == sensorData.pulses - st.lastPulseCount
        instantRPM == FixDiv(pulseDelta * 60 * 1000, PULSES_PER_ROTATION * elapsed)
        fallback ==
            [st EXCEPT !.currentRPM =
                          IF st.sinceUpdate # NULL /\ elapsed > 0 /\ pulseDelta >= 0
                          THEN Round10(instantRPM) ELSE @,
                       !.lastPulseCount = sensorData.pulses,
                       !.sinceUpdate = 0]
        st2 == IF sensorData.filteredRPM # NULL /\ sensorData.filteredRPM > 0
               THEN [st EXCEPT !.currentRPM = Round10(sensorData.filteredRPM)]
               ELSE IF st.currentRPM > 0 THEN st
               ELSE fallback
    IN  IF ~known \/ ~sensorData.enabled
        THEN [st |-> st, ret |-> 0]
        ELSE [st |-> st2, ret |-> st2.currentRPM]

(* The gains of the two zones: kp times 100, ki * dt times 10000 and       *)
(* kd / dt times 10, with dt = UPDATE_RATE / 1000.                         *)
Gains(targetRPM) ==
    IF targetRPM < LOW_SPEED * SCALE
    THEN [kp100 |-> 35, kidt10000 |-> 50, kddt10 |-> 0]
    ELSE [kp100 |-> 250, kidt10000 |-> 350, kddt10 |-> 4]

(* The lower clamp of the output: the kick when accelerating, else minPWM. *)
MinAllowed(error, kick) == IF error > 0 THEN kick ELSE minPWM * SCALE

(* u after the feed-forward kick *)
ApplyKick(u, error, kick) == IF error > 0 /\ u < kick THEN kick ELSE u

(* Math.max(minAllowed, Math.min(maxPWM, u)) *)
ClampOutput(u, minAllowed) == Max(minAllowed, Min(maxPWM * SCALE, u))

(* Output without the feed-forward kick and its lower clamp. *)
OutputNoKick(u, error, kick) == ClampOutput(u, minPWM * SCALE)

(* The output u after the kick and the clamp to the actuator limits. *)
Output(u, error, kick) ==
    ClampOutput(ApplyKick(u, error, kick), MinAllowed(error, kick))

(* The integral term left as it is. *)
BleedNone(i) == i

(* integralTerm *= 0.7 *)
Bleed(i) == IF i >= 0 THEN (i * 7) \div 10 ELSE -(((-i) * 7) \div 10)

(* The integral term left as the sum made it. *)
ClampIntegralNone(i) == i

(* Math.max(-100, Math.min(100, integralTerm)) *)
ClampIntegral(i) == Max(-INTEGRAL_LIMIT * SCALE, Min(INTEGRAL_LIMIT * SCALE, i))

(* A deadband test that no error passes. *)
NoDeadband(error) == FALSE

(* Math.abs(error) < rpmControlState.errorDeadband *)
InDeadband(error) == Abs(error) < errorDeadband * SCALE

(* The body of updateRPMController for an active controller: the state     *)
(* after the tick, whether the tick was in the deadband, and its output.   *)
updateRPMController(st0, sensors) ==
    LET c == calculateCurrentRPM(st0, sensors)
        st == c.st
        currentRPM == c.ret
        error == st.targetRPM - currentRPM
        g == Gains(st.targetRPM)
        proportional == MulDiv(g.kp100, error, 100)
        integral1 == st.integralTerm + MulDiv(g.kidt10000, error, 10000)
        integral2 == ClampIntegral(integral1)
        derivative == IF st.lastError # st.targetRPM
                      THEN MulDiv(g.kddt10, error - st.lastError, 10)
                      ELSE 0
        u0 == proportional + integral2 + derivative
        kick == Kick(st.targetRPM)
        u2 == Output(u0, error, kick)
        pwm == MathRound(u2)
        saturated == pwm = maxPWM * SCALE \/ pwm = minPWM * SCALE
        sat == IF saturated THEN st.satTimer + UPDATE_RATE ELSE 0
        integral3 == IF sat > SAT_LIMIT_MS THEN Bleed(integral2) ELSE integral2
        stDead == [st EXCEPT !.error = Round10(error)]
        stPid == [st EXCEPT !.integralTerm = integral3,
                            !.currentPWM = pwm,
                            !.satTimer = sat,
                            !.error = Round10(error),
                            !.lastError = error]
    IN  IF InDeadband(error)
        THEN [st |-> stDead, deadband |-> TRUE, derivative |-> 0,
              out |-> broadcastRPMStatus(stDead)]
        ELSE [st |-> stPid, deadband |-> FALSE, derivative |-> derivative,
              out |-> sendPWMCommand(stPid.controlPin, stPid.currentPWM)
                      \o broadcastRPMStatus(stPid)]

----------------------------------------------------------------------------
(* RPM controller: timers *)

TimerIds == 1..MaxTimers

(* clearInterval(rpmControlState.controlInterval) when it is set *)
clearInterval(ts, id) == IF id # NULL THEN ts \ {id} ELSE ts

(* the id of the interval that setInterval creates *)
NewTimer(ts) == CHOOSE id \in TimerIds \ ts : \A o \in TimerIds \ ts : id <= o

(* The pins left at a non-zero duty once the commands in out have been     *)
(* sent, in order, after those in driven.                                  *)
RECURSIVE DrivenAfter(_, _)
DrivenAfter(driven, out) ==
    IF out = <<>> THEN driven
    ELSE LET e == Head(out)
         IN  DrivenAfter(IF e.type # "cmd" THEN driven
                         ELSE IF e.duty # 0 THEN driven \cup {e.pin}
                         ELSE driven \ {e.pin},
                         Tail(out))

Respond(op, r, status, out) ==
    /\ lastOp' = op
    /\ req' = r
    /\ resp' = status
    /\ trace' = out
    /\ drivenPins' = DrivenAfter(drivenPins, out)

----------------------------------------------------------------------------
(* RPM controller: handlers *)

(* The controller state that an accepted start leaves. *)
StartState(st, sensorData, targetRPM, controlPin, sensorNumber, interval) ==
    [st EXCEPT !.targetRPM = targetRPM * SCALE,
               !.controlPin = IF controlPin = NULL \/ controlPin = 0
                              THEN DEFAULT_PIN ELSE controlPin,
               !.sensorNumber = sensorNumber,
               !.active = TRUE,
               !.currentPWM = Kick(targetRPM * SCALE),
               !.lastPulseCount = sensorData.pulses,
               !.sinceUpdate = 0,
               !.integralTerm = 0,
               !.lastError = targetRPM * SCALE,
               !.satTimer = 0,
               !.controlInterval = interval]

(* start that leaves a running interval alone. *)
StartTimersNoClear(ts, st) == ts

(* What start does to the interval that is already running. *)
StartTimers(ts, st) == clearInterval(ts, st.controlInterval)

(* start that checks only that the sensor is known. *)
StartAcceptsKnownSensor(targetRPM, sensorNumber) ==
    /\ targetRPM > 0
    /\ sensorNumber \in DOMAIN activeSensors

(* Whether start accepts its input. *)
StartAccepts(targetRPM, sensorNumber) ==
    /\ targetRPM > 0
    /\ sensorNumber \in DOMAIN activeSensors
    /\ activeSensors[sensorNumber].enabled

(* router.post('/start') *)
Start(targetRPM, controlPin, sensorNumber) ==
    LET r == NoReq
        sensorData == activeSensors[sensorNumber]
        ts == StartTimers(timers, rpmControlState)
        id == NewTimer(ts)
        st == StartState(rpmControlState, sensorData, targetRPM, controlPin,
                         sensorNumber, id)
    IN  /\ running
        /\ IF ~StartAccepts(targetRPM, sensorNumber)
           THEN /\ Respond("start", r, 400, <<>>)
                /\ UNCHANGED <<ctrlVars, sensorVars, activePins>>
           ELSE /\ TimerIds \ ts # {}
                /\ rpmControlState' = st
                /\ timers' = ts \cup {id}
                /\ stopReturned' = FALSE
                /\ UNCHANGED tickCount
                /\ rpmFilters' = Put(rpmFilters, sensorData.pin, 0)
                /\ Respond("start", r, 200, broadcastRPMStatus(st))
                /\ UNCHANGED <<activeSensors, pulseCounts, pulseTimes,
                               lastEdgeTick, listeners, hwTick, edgeCount,
                               activePins>>
        /\ UNCHANGED <<pwmPigpioAvailable, sensorPigpioAvailable, running, esp32>>

(* A stop that leaves the integral term and the saturation timer. *)
StopStateKeepsTerms(st) ==
    [st EXCEPT !.active = FALSE,
               !.controlInterval = NULL,
               !.currentPWM = 0,
               !.lastError = 0]

(* The controller state that stop leaves. *)
StopState(st) ==
    [st EXCEPT !.active = FALSE,
               !.controlInterval = NULL,
               !.currentPWM = 0,
               !.integralTerm = 0,
               !.lastError = 0,
               !.satTimer = 0]

(* What stop does to the running interval. *)
StopTimers(ts, st) == clearInterval(ts, st.controlInterval)

(* stop that zeroes the output and the PID terms but leaves the loop       *)
(* running.                                                                *)
StopKeepsLoop ==
    LET st == [rpmControlState EXCEPT !.currentPWM = 0, !.integralTerm = 0,
                                      !.lastError = 0, !.satTimer = 0]
    IN  /\ running
        /\ rpmControlState' = st
        /\ activePins' = RegistryAfterSend(activePins, rpmControlState.controlPin, 0)
        /\ Respond("stop", NoReq, 200,
                   sendPWMCommand(rpmControlState.controlPin, 0)
                   \o broadcastRPMStatus(st))
        /\ stopReturned' = TRUE
        /\ UNCHANGED <<timers, tickCount, sensorVars, pwmPigpioAvailable,
                       sensorPigpioAvailable, running, esp32>>

(* router.post('/stop') *)
Stop ==
    LET st == StopState(rpmControlState)
    IN  /\ running
        /\ rpmControlState' = st
        /\ timers' = StopTimers(timers, rpmControlState)
        /\ activePins' = RegistryAfterSend(activePins, rpmControlState.controlPin, 0)
        /\ Respond("stop", NoReq, 200,
                   sendPWMCommand(rpmControlState.controlPin, 0)
                   \o broadcastRPMStatus(st))
        /\ stopReturned' = TRUE
        /\ UNCHANGED <<tickCount, sensorVars, pwmPigpioAvailable,
                       sensorPigpioAvailable, running, esp32>>

(* Whether set-rpm accepts its input: !targetRPM || targetRPM < 0 rejects. *)
SetRpmAccepts(targetRPM) == ~(targetRPM = 0 \/ targetRPM < 0)

(* router.post('/set-rpm') *)
SetRpm(targetRPM) ==
    LET r == [a |-> targetRPM, b |-> 0, c |-> 0, d |-> 0]
        stops == targetRPM = 0 /\ rpmControlState.active
        st1 == [rpmControlState EXCEPT !.targetRPM = targetRPM * SCALE]
        st2 == IF stops
               THEN [st1 EXCEPT !.active = FALSE, !.controlInterval = NULL,
                                !.currentPWM = 0]
               ELSE st1
    IN  /\ running
        /\ IF ~SetRpmAccepts(targetRPM)
           THEN /\ Respond("set-rpm", r, 400, <<>>)
                /\ UNCHANGED <<ctrlVars, activePins>>
           ELSE /\ rpmControlState' = st2
                /\ timers' = IF stops
                             THEN clearInterval(timers, rpmControlState.controlInterval)
                             ELSE timers
                /\ activePins' = IF stops
                                 THEN RegistryAfterSend(activePins, st1.controlPin, 0)
                                 ELSE activePins
                /\ Respond("set-rpm", r, 200,
                           (IF stops THEN sendPWMCommand(st1.controlPin, 0) ELSE <<>>)
                           \o broadcastRPMStatus(st2))
                /\ stopReturned' = (stops \/ stopReturned)
                /\ UNCHANGED tickCount
        /\ UNCHANGED <<sensorVars, pwmPigpioAvailable, sensorPigpioAvailable,
                       running, esp32>>

(* router.post('/set-params'): NULL stands for an absent field. *)
SetParams(controlPin, sensorNumber) ==
    LET r == NoReq
        st == [rpmControlState EXCEPT
                  !.controlPin = IF controlPin # NULL THEN controlPin ELSE @,
                  !.sensorNumber = IF sensorNumber # NULL THEN sensorNumber ELSE @]
    IN  /\ running
        /\ rpmControlState' = st
        /\ Respond("set-params", r, 200, broadcastRPMStatus(st))
        /\ UNCHANGED <<timers, tickCount, stopReturned, sensorVars, activePins,
                       pwmPigpioAvailable, sensorPigpioAvailable, running, esp32>>

(* The interval callback: updateRPMController, fired by a live interval    *)
(* UPDATE_RATE ms after the previous firing; bound caps the number of      *)
(* firings of an active controller.                                        *)
TickWithin(id, bound) ==
    LET st0 == [rpmControlState EXCEPT
                   !.sinceUpdate = IF @ = NULL THEN NULL ELSE @ + UPDATE_RATE]
        r == updateRPMController(st0, activeSensors)
    IN  /\ running
        /\ id \in timers
        /\ IF ~rpmControlState.active
           THEN /\ Respond("tick:idle", NoReq, 0, <<>>)
                /\ UNCHANGED <<rpmControlState, tickCount, activePins>>
           ELSE /\ tickCount < bound
                /\ tickCount' = tickCount + 1
                /\ rpmControlState' = r.st
                /\ activePins' = IF r.deadband THEN activePins
                                 ELSE RegistryAfterSend(activePins, r.st.controlPin,
                                                        r.st.currentPWM)
                /\ Respond(IF r.deadband THEN "tick:deadband" ELSE "tick:pid",
                           [NoReq EXCEPT !.a = r.derivative], 0, r.out)
        /\ UNCHANGED <<timers, stopReturned, sensorVars, pwmPigpioAvailable,
                       sensorPigpioAvailable, running, esp32>>


Tick(id) == TickWithin(id, MaxTicks)

----------------------------------------------------------------------------
(* Encoder pipeline *)

GpioIds == 1..MaxGpio

FreeGpioIds == GpioIds \ {l.id : l \in listeners}

NewGpio == CHOOSE id \in FreeGpioIds : \A o \in FreeGpioIds : id <= o

(* gpio.removeAllListeners('alert') on the Gpio object a sensor holds *)
removeAllListeners(ls, gpio) == {l \in ls : l.id # gpio}

(* The record that enable stores for a sensor; it has no filteredRPM yet. *)
NewSensor(pin) ==
    [pin |-> pin, enabled |-> TRUE, pulses |-> 0, rate |-> 0,
     filteredRPM |-> NULL, gpio |-> NULL]

(* router.post('/enable') with startGPIOMonitoring; opens is whether       *)
(* new Gpio(pin, ...) succeeds.                                            *)
Enable(sensor, pin, opens) ==
    LET r == [a |-> sensor, b |-> pin, c |-> 0, d |-> 0]
        id == NewGpio
    IN  /\ running
        /\ IF ~sensorPigpioAvailable
           THEN /\ Respond("enable", r, 500, <<>>)
                /\ UNCHANGED <<activeSensors, pulseCounts, pulseTimes,
                               rpmFilters, listeners>>
           ELSE IF ~opens
           THEN /\ activeSensors' = Put(activeSensors, sensor, NewSensor(pin))
                /\ pulseCounts' = Put(pulseCounts, pin, 0)
                /\ Respond("enable", r, 500, <<>>)
                /\ UNCHANGED <<pulseTimes, rpmFilters, listeners>>
           ELSE /\ FreeGpioIds # {}
                /\ activeSensors' = Put(activeSensors, sensor,
                                        [NewSensor(pin) EXCEPT !.gpio = id])
                /\ pulseCounts' = Put(pulseCounts, pin, 0)
                /\ pulseTimes' = Put(pulseTimes, pin, <<>>)
                /\ rpmFilters' = Put(rpmFilters, pin, 0)
                /\ listeners' = listeners \cup
                                  {[id |-> id, pin |-> pin, sensor |-> sensor]}
                /\ Respond("enable", r, 200, <<>>)
        /\ UNCHANGED <<ctrlVars, lastEdgeTick, hwTick, edgeCount, activePins,
                       pwmPigpioAvailable, sensorPigpioAvailable, running, esp32>>

(* stopGPIOMonitoring: the listeners, windows and filters after it *)
stopGPIOMonitoring(sensor, ls, pt, rf) ==
    IF sensor \notin DOMAIN activeSensors
    THEN [listeners |-> ls, pulseTimes |-> pt, rpmFilters |-> rf]
    ELSE [listeners |-> removeAllListeners(ls, activeSensors[sensor].gpio),
          pulseTimes |-> Del(pt, activeSensors[sensor].pin),
          rpmFilters |-> Del(rf, activeSensors[sensor].pin)]

(* router.post('/disable') *)
Disable(sensor) ==
    LET r == [a |-> sensor, b |-> 0, c |-> 0, d |-> 0]
        m == stopGPIOMonitoring(sensor, listeners, pulseTimes, rpmFilters)
    IN  /\ running
        /\ listeners' = m.listeners
        /\ pulseTimes' = m.pulseTimes
        /\ rpmFilters' = m.rpmFilters
        /\ activeSensors' =
             IF sensor \in DOMAIN activeSensors
             THEN [activeSensors EXCEPT ![sensor].enabled = FALSE,
                                        ![sensor].gpio = NULL]
             ELSE activeSensors
        /\ Respond("disable", r, 200, <<>>)
        /\ UNCHANGED <<ctrlVars, pulseCounts, lastEdgeTick, hwTick, edgeCount,
                       activePins, pwmPigpioAvailable, sensorPigpioAvailable,
                       running, esp32>>

(* router.post('/reset') *)
Reset(sensor) ==
    LET r == [a |-> sensor, b |-> 0, c |-> 0, d |-> 0]
    IN  /\ running
        /\ IF sensor \in DOMAIN activeSensors
           THEN /\ activeSensors' = [activeSensors EXCEPT ![sensor].pulses = 0,
                                                          ![sensor].rate = 0]
                /\ pulseCounts' = Put(pulseCounts, activeSensors[sensor].pin, 0)
           ELSE UNCHANGED <<activeSensors, pulseCounts>>
        /\ Respond("reset", r, 200, <<>>)
        /\ UNCHANGED <<ctrlVars, pulseTimes, rpmFilters, lastEdgeTick,
                       listeners, hwTick, edgeCount, activePins,
                       pwmPigpioAvailable, sensorPigpioAvailable, running, esp32>>

(* Whether the debounce lets an edge at tick through. *)
Accepts(pin, tick) ==
    ~(tick - Get(lastEdgeTick, pin, 0) < DEBOUNCE_US \div TICK_UNIT)

(* The comparisons of the window are made on tick / 1_000_000, a double:   *)
(* a difference of exactly the limit compares as greater for some ticks    *)
(* and as equal for others.  fp names the comparisons that come out as     *)
(* greater at their exact limit.                                           *)
FpOutcomes == SUBSET {"evict", "span"}

(* A window from which nothing is evicted. *)
EvictNone(w, tick, fp) == w

(* The window after pushing tick and evicting entries older than 1 s. *)
RECURSIVE Evict(_, _, _)
Evict(w, tick, fp) ==
    IF Len(w) > 0 /\ (\/ tick - w[1] > WINDOW_US \div TICK_UNIT
                      \/ (tick - w[1] = WINDOW_US \div TICK_UNIT /\ "evict" \in fp))
    THEN Evict(Tail(w), tick, fp) ELSE w

(* (pulsesPerSecond * 60) / 45 for windowPulses in windowTime microseconds *)
InstantRPM(windowPulses, windowTime) ==
    FixDiv(windowPulses * 4000000, 3 * windowTime)

(* Math.round(pulsesPerSecond) *)
Rate(windowPulses, windowTime) ==
    (2 * windowPulses * 1000000 + windowTime) \div (2 * windowTime)

(* currentFilter * 0.6 + instantRPM * 0.4 *)
Filter(currentFilter, instantRPM) == (6 * currentFilter + 4 * instantRPM) \div 10

(* Whether a window is long enough for a new RPM value. *)
Qualifies(w, fp) ==
    /\ Len(w) >= 2
    /\ \/ w[Len(w)] - w[1] > MIN_WINDOW_US \div TICK_UNIT
       \/ (w[Len(w)] - w[1] = MIN_WINDOW_US \div TICK_UNIT /\ "span" \in fp)

(* detectRealPulseInterrupt for an edge that passed the debounce *)
detectRealPulseInterrupt(pin, sensor, tick, fp) ==
    LET newCount == Get(pulseCounts, pin, 0) + 1
        w == Evict(Append(Get(pulseTimes, pin, <<>>), tick), tick, fp)
        windowTime == (w[Len(w)] - w[1]) * TICK_UNIT
        windowPulses == Len(w) - 1
        instantRPM == InstantRPM(windowPulses, windowTime)
        rate == IF Qualifies(w, fp) THEN Rate(windowPulses, windowTime) ELSE 0
        rf == IF Qualifies(w, fp)
              THEN Put(rpmFilters, pin,
                       Filter(Get(rpmFilters, pin, instantRPM), instantRPM))
              ELSE rpmFilters
    IN  /\ lastEdgeTick' = Put(lastEdgeTick, pin, tick)
        /\ pulseCounts' = Put(pulseCounts, pin, newCount)
        /\ pulseTimes' = Put(pulseTimes, pin, w)
        /\ rpmFilters' = rf
        /\ activeSensors' =
             IF sensor \in DOMAIN activeSensors
             THEN [activeSensors EXCEPT ![sensor].pulses = newCount,
                                        ![sensor].rate = rate,
                                        ![sensor].filteredRPM = Get(rf, pin, 0)]
             ELSE activeSensors

(* A listener that runs the handler whatever the sensor's enabled flag. *)
CallbackRunsAlways(l) == l.sensor \in DOMAIN activeSensors

(* sensorState.activeSensors.get(sensorKey)?.enabled *)
CallbackRuns(l) ==
    /\ l.sensor \in DOMAIN activeSensors
    /\ activeSensors[l.sensor].enabled

(* gpio.on('alert'): the callback of listener l for a rising edge that     *)
(* arrives delta microseconds after the previous callback, while fewer     *)
(* than bound edges have been delivered.                                   *)
EdgeWithin(l, delta, bound, fp) ==
    LET tick == (hwTick + delta \div TICK_UNIT) % TICK_WRAP
    IN  /\ running
        /\ l \in listeners
        /\ edgeCount < bound
        /\ edgeCount' = edgeCount + 1
        /\ hwTick' = tick
        /\ IF CallbackRuns(l) /\ Accepts(l.pin, tick)
           THEN detectRealPulseInterrupt(l.pin, l.sensor, tick, fp)
           ELSE UNCHANGED <<activeSensors, pulseCounts, pulseTimes, rpmFilters,
                            lastEdgeTick>>
        /\ Respond("edge", [a |-> l.sensor, b |-> l.pin, c |-> delta,
                            d |-> Cardinality(fp)],
                   0, <<>>)
        /\ UNCHANGED <<ctrlVars, listeners, activePins, pwmPigpioAvailable,
                       sensorPigpioAvailable, running, esp32>>

Edge(l, delta) == EdgeWithin(l, delta, MaxEdges, {})

----------------------------------------------------------------------------
(* PWM registry *)

ValidPin(pin) == ~(pin = NULL \/ pin < 0 \/ pin > MAX_PIN)

ValidDuty(dutyCycle) == ~(dutyCycle = NULL \/ dutyCycle < 0 \/ dutyCycle > maxPWM)

ValidFrequencyFromZero(frequency) == ~(frequency < 0 \/ frequency > MAX_FREQUENCY)

ValidFrequency(frequency) == ~(frequency < 1 \/ frequency > MAX_FREQUENCY)

(* The entry that a first use of a pin creates in hardware mode. *)
NewPin == [gpio |-> TRUE, dutyCycle |-> 0, frequency |-> DEFAULT_FREQUENCY,
           enabled |-> FALSE]

(* The stored values of a hardware entry after its backend calls. *)
StoreValuesWritten(reg, pin, dutyCycle, frequency, enabled) ==
    [reg EXCEPT ![pin].enabled = enabled,
                ![pin].dutyCycle = IF enabled THEN dutyCycle ELSE 0,
                ![pin].frequency = frequency]

StoreValues(reg, pin, dutyCycle, frequency, enabled) ==
    [reg EXCEPT ![pin].enabled = enabled,
                ![pin].dutyCycle = dutyCycle,
                ![pin].frequency = frequency]

(* The list that router.get('/status') reports under activePins. *)
activePinsList ==
    {[pin |-> pin,
      dutyCycle |-> activePins[pin].dutyCycle,
      frequency |-> activePins[pin].frequency,
      enabled |-> activePins[pin].enabled] : pin \in DOMAIN activePins}

(* router.post('/set'); fail names the backend call that throws, if any.   *)
(* A known entry without a handle makes pinData.gpio.pwmFrequency and      *)
(* pinData.gpio.pwmWrite throw before anything is stored.                  *)
PwmSet(pin, dutyCycle, frequency, enabled, fail) ==
    LET r == [a |-> pin, b |-> dutyCycle, c |-> frequency, d |-> IF enabled THEN 1 ELSE 0]
        known == pin \in DOMAIN activePins
        opened == IF known THEN activePins ELSE Put(activePins, pin, NewPin)
        written == StoreValues(opened, pin, dutyCycle, frequency, enabled)
        calls == IF enabled
                 THEN <<Ev("pwmFrequency", pin, frequency, FALSE),
                        Ev("pwmWrite", pin, dutyCycle * SCALE, FALSE)>>
                 ELSE <<Ev("pwmWrite", pin, 0, FALSE)>>
    IN  /\ running
        /\ fail \in {"none", "open", "freq", "write"}
        /\ IF ~ValidPin(pin) \/ ~ValidDuty(dutyCycle) \/ ~ValidFrequency(frequency)
           THEN /\ fail = "none"
                /\ Respond("pwm/set", r, 400, <<>>)
                /\ UNCHANGED activePins
           ELSE IF ~pwmPigpioAvailable
           THEN /\ fail = "none"
                /\ activePins' = Put(activePins, pin,
                                     [gpio |-> FALSE, dutyCycle |-> dutyCycle,
                                      frequency |-> frequency, enabled |-> enabled])
                /\ Respond("pwm/set", r, 200, <<>>)
           ELSE IF known /\ ~activePins[pin].gpio
           THEN /\ fail = "none"
                /\ Respond("pwm/set", r, 500, <<>>)
                /\ UNCHANGED activePins
           ELSE IF fail = "open"
           THEN /\ ~known
                /\ Respond("pwm/set", r, 500, <<>>)
                /\ UNCHANGED activePins
           ELSE IF fail = "freq"
           THEN /\ enabled
                /\ activePins' = opened
                /\ Respond("pwm/set", r, 500, <<>>)
           ELSE IF fail = "write"
           THEN /\ activePins' = opened
                /\ Respond("pwm/set", r, 500, SubSeq(calls, 1, Len(calls) - 1))
           ELSE /\ activePins' = written
                /\ Respond("pwm/set", r, 200, calls)
        /\ UNCHANGED <<ctrlVars, sensorVars, pwmPigpioAvailable,
                       sensorPigpioAvailable, running, esp32>>

(* Whether stopping an entry calls the backend. *)
HasHandle(pin) == pwmPigpioAvailable /\ activePins[pin].gpio

(* The backend write that stopping an entry makes. *)
StopWrite(pin) ==
    IF HasHandle(pin)
    THEN <<Ev("pwmWrite", pin, 0, FALSE)>>
    ELSE <<>>

(* router.post('/stop') of pwm-routes; fail says that pwmWrite throws. *)
PwmStop(pin, fail) ==
    LET r == [a |-> pin, b |-> 0, c |-> 0, d |-> 0]
    IN  /\ running
        /\ IF ~ValidPin(pin)
           THEN /\ ~fail
                /\ Respond("pwm/stop", r, 400, <<>>)
                /\ UNCHANGED activePins
           ELSE IF pin \in DOMAIN activePins
           THEN IF fail
                THEN /\ HasHandle(pin)
                     /\ Respond("pwm/stop", r, 500, <<>>)
                     /\ UNCHANGED activePins
                ELSE /\ activePins' = Del(activePins, pin)
                     /\ Respond("pwm/stop", r, 200, StopWrite(pin))
           ELSE /\ ~fail
                /\ Respond("pwm/stop", r, 200, <<>>)
                /\ UNCHANGED activePins
        /\ UNCHANGED <<ctrlVars, sensorVars, pwmPigpioAvailable,
                       sensorPigpioAvailable, running, esp32>>

(* The writes of a loop over the registry's entries, in ascending order of *)
(* pin, each followed by the pin's report in stoppedPins.                  *)
RECURSIVE StopWrites(_, _)
StopWrites(pins, report) ==
    IF pins = {} THEN <<>>
    ELSE LET pin == CHOOSE q \in pins : \A o \in pins : q <= o
         IN  StopWrite(pin)
             \o (IF report THEN <<Ev("stopped", pin, 0, FALSE)>> ELSE <<>>)
             \o StopWrites(pins \ {pin}, report)

(* activePins.clear() that keeps the entries without a handle. *)
clearHandles(reg) ==
    [pin \in {q \in DOMAIN reg : ~reg[q].gpio} |-> reg[pin]]

(* activePins.clear() *)
clear(reg) == EmptyMap

(* The registry after the loop of stop-all has handled the pins of done:   *)
(* pinData.gpio = null for each entry that held a handle.                  *)
Released(reg, done) ==
    [pin \in DOMAIN reg |->
        IF pin \in done /\ HasHandle(pin)
        THEN [reg[pin] EXCEPT !.gpio = FALSE] ELSE reg[pin]]

(* router.post('/stop-all').  failPin is the pin whose pwmWrite throws, if  *)
(* any; done is the set of pins that the loop handled before it.           *)
PwmStopAll(failPin, done) ==
    /\ running
    /\ IF failPin = NULL
       THEN /\ done = DOMAIN activePins
            /\ activePins' = clear(activePins)
            /\ Respond("pwm/stop-all", NoReq, 200,
                       StopWrites(DOMAIN activePins, TRUE))
       ELSE /\ failPin \in DOMAIN activePins
            /\ HasHandle(failPin)
            /\ done \subseteq DOMAIN activePins \ {failPin}
            /\ activePins' = Released(activePins, done)
            /\ Respond("pwm/stop-all", [NoReq EXCEPT !.a = failPin], 500,
                       StopWrites(done, FALSE))
    /\ UNCHANGED <<ctrlVars, sensorVars, pwmPigpioAvailable,
                   sensorPigpioAvailable, running, esp32>>

----------------------------------------------------------------------------
(* Shutdown *)

(* cleanup of rpm-control-routes *)
CleanupState(st) ==
    [st EXCEPT !.controlInterval = NULL,
               !.active = FALSE,
               !.currentPWM = 0,
               !.integralTerm = 0,
               !.satTimer = 0]

(* The listeners that sensor-routes' cleanup leaves. *)
RECURSIVE CleanupListeners(_, _)
CleanupListeners(sensors, ls) ==
    IF sensors = {} THEN ls
    ELSE LET s == CHOOSE x \in sensors : TRUE
         IN  CleanupListeners(sensors \ {s},
                              removeAllListeners(ls, activeSensors[s].gpio))

(* gracefulShutdown: when the servers close in time, the three cleanups    *)
(* run and the process exits; otherwise the 10 s timer exits the process.  *)
Shutdown(inTime) ==
    /\ running
    /\ running' = FALSE
    /\ IF inTime
       THEN /\ activePins' = EmptyMap
            /\ listeners' = CleanupListeners(DOMAIN activeSensors, listeners)
            /\ activeSensors' = EmptyMap
            /\ pulseCounts' = EmptyMap
            /\ pulseTimes' = EmptyMap
            /\ rpmFilters' = EmptyMap
            /\ lastEdgeTick' = EmptyMap
            /\ rpmControlState' = CleanupState(rpmControlState)
            /\ timers' = clearInterval(timers, rpmControlState.controlInterval)
            /\ Respond("shutdown", [NoReq EXCEPT !.a = 1], 0,
                       StopWrites(DOMAIN activePins, FALSE))
       ELSE /\ Respond("shutdown", NoReq, 0, <<>>)
            /\ UNCHANGED <<rpmControlState, timers, activeSensors, pulseCounts,
                           pulseTimes, rpmFilters, lastEdgeTick, listeners,
                           activePins>>
    /\ UNCHANGED <<tickCount, stopReturned, hwTick, edgeCount,
                   pwmPigpioAvailable, sensorPigpioAvailable, esp32>>

----------------------------------------------------------------------------
(* ESP32 commands *)

(* ws.onmessage as command h installed it, run on the response with the    *)
(* given id: a handler that finds its own id clears its timeout, restores  *)
(* the handler it saved and settles its promise (a settled promise stays   *)
(* as it is); any other handler passes the event to the one it saved.      *)
RECURSIVE OnMessage(_, _, _, _)
OnMessage(e, h, id, success) ==
    IF h = ORIGINAL THEN e
    ELSE IF id = h
    THEN [e EXCEPT !.onmessage = e.originalOnMessage[h],
                   !.outcome[h] = IF @ # "pending" THEN @
                                  ELSE IF success THEN "resolved" ELSE "rejected"]
    ELSE OnMessage(e, e.originalOnMessage[h], id, success)

(* Whether the event ends at the socket's own handler. *)
RECURSIVE ReachesOriginal(_, _, _)
ReachesOriginal(e, h, id) ==
    IF h = ORIGINAL THEN TRUE
    ELSE IF id = h THEN FALSE
    ELSE ReachesOriginal(e, e.originalOnMessage[h], id)

(* sendCommandToESP32: open says that the device is connected and its     *)
(* socket open.                                                            *)
EspSend(c, open) ==
    /\ running
    /\ esp32.outcome[c] = "unsent"
    /\ IF ~open
       THEN /\ Respond("esp/send", [NoReq EXCEPT !.a = c], 500, <<>>)
            /\ UNCHANGED esp32
       ELSE /\ esp32' = [esp32 EXCEPT !.originalOnMessage[c] = esp32.onmessage,
                                      !.onmessage = c,
                                      !.outcome[c] = "pending",
                                      !.wire = @ \cup {c}]
            /\ Respond("esp/send", [NoReq EXCEPT !.a = c], 0, <<>>)
    /\ UNCHANGED <<ctrlVars, sensorVars, activePins, pwmPigpioAvailable,
                   sensorPigpioAvailable, running>>

(* The device's response to command c arrives at ws.onmessage. *)
EspResponse(c, success) ==
    /\ running
    /\ c \in esp32.wire
    /\ esp32' = [OnMessage(esp32, esp32.onmessage, c, success)
                   EXCEPT !.wire = @ \ {c}]
    /\ Respond("esp/response",
               [NoReq EXCEPT !.a = c, !.b = IF success THEN 1 ELSE 0],
               IF ReachesOriginal(esp32, esp32.onmessage, c) THEN 1 ELSE 0, <<>>)
    /\ UNCHANGED <<ctrlVars, sensorVars, activePins, pwmPigpioAvailable,
                   sensorPigpioAvailable, running>>

(* The 5 second timeout of command c fires: it was not cleared. *)
EspTimeout(c) ==
    /\ running
    /\ esp32.outcome[c] = "pending"
    /\ esp32' = [esp32 EXCEPT !.outcome[c] = "timeout"]
    /\ Respond("esp/timeout", [NoReq EXCEPT !.a = c], 0, <<>>)
    /\ UNCHANGED <<ctrlVars, sensorVars, activePins, pwmPigpioAvailable,
                   sensorPigpioAvailable, running>>

----------------------------------------------------------------------------
(* The controller with one encoder, which the operator enables only when  *)
(* it is not enabled already.                                              *)

SensorEnabled(sensor) ==
    sensor \in DOMAIN activeSensors /\ activeSensors[sensor].enabled

CtlPins == {18, 19}
CtlEdgeDeltas == {30000, 33000}

Next ==
    \/ \E t \in TargetInputs, p \in ControlPinInputs, s \in SensorInputs :
          Start(t, p, s)
    \/ Stop
    \/ \E t \in TargetInputs \ {-5} : SetRpm(t)
    \/ \E p \in CtlPins : SetParams(p, NULL)
    \/ \E id \in TimerIds : Tick(id)
    \/ \E p \in SensorPinInputs :
          ~SensorEnabled(DEFAULT_SENSOR) /\ Enable(DEFAULT_SENSOR, p, TRUE)
    \/ Disable(DEFAULT_SENSOR)
    \/ \E l \in listeners, d \in CtlEdgeDeltas : Edge(l, d)
    \/ Shutdown(TRUE)

InitCtl == Init /\ pwmPigpioAvailable /\ hwTick = InitialTick \div TICK_UNIT

Spec == InitCtl /\ [][Next]_vars

(* The command interface alone: no encoder edge arrives, so every tick     *)
(* reads 0 RPM.                                                            *)
NextCmd ==
    \/ \E t \in TargetInputs, p \in ControlPinInputs, s \in SensorInputs :
          Start(t, p, s)
    \/ Stop
    \/ \E t \in TargetInputs \ {-5} : SetRpm(t)
    \/ \E p \in CtlPins : SetParams(p, NULL)
    \/ \E id \in TimerIds : Tick(id)
    \/ \E p \in SensorPinInputs :
          ~SensorEnabled(DEFAULT_SENSOR) /\ Enable(DEFAULT_SENSOR, p, TRUE)
    \/ Disable(DEFAULT_SENSOR)
    \/ Shutdown(TRUE)

SpecCmd == InitCtl /\ [][NextCmd]_vars

(* The closed loop: a sensor that is enabled once, its edges, and a        *)
(* controller that is started on the default pin, stopped, retargeted and  *)
(* ticked.                                                                 *)
NextLoop ==
    \/ \E t \in TargetInputs : Start(t, NULL, DEFAULT_SENSOR)
    \/ Stop
    \/ \E t \in TargetInputs \ {-5} : SetRpm(t)
    \/ \E id \in TimerIds : Tick(id)
    \/ \E p \in SensorPinInputs :
          ~SensorEnabled(DEFAULT_SENSOR) /\ Enable(DEFAULT_SENSOR, p, TRUE)
    \/ \E l \in listeners, d \in CtlEdgeDeltas : Edge(l, d)

SpecLoop == InitCtl /\ [][NextLoop]_vars

(* A controller that is left running for several ticks while its sensor    *)
(* produces no pulse.                                                      *)
WindupTargets == {16, 200}

NextWindup ==
    \/ \E t \in WindupTargets : Start(t, NULL, DEFAULT_SENSOR)
    \/ Stop
    \/ \E t \in WindupTargets : SetRpm(t)
    \/ \E id \in TimerIds : TickWithin(id, MaxWindupTicks)
    \/ \E p \in SensorPinInputs :
          ~SensorEnabled(DEFAULT_SENSOR) /\ Enable(DEFAULT_SENSOR, p, TRUE)

InitWindup == InitCtl /\ sensorPigpioAvailable

SpecWindup == InitWindup /\ [][NextWindup]_vars

(* The encoder pipeline alone: two sensors, two input pins, every sensor   *)
(* command in any order, and edges from a tick counter that starts either  *)
(* early or just before it wraps.                                          *)
SensorEdgeDeltas == {3000, 30000}

NextSensor ==
    \/ \E p \in EncoderPins : Enable(DEFAULT_SENSOR, p, TRUE)
    \/ Disable(DEFAULT_SENSOR)
    \/ Reset(DEFAULT_SENSOR)
    \/ \E l \in listeners, d \in SensorEdgeDeltas :
          EdgeWithin(l, d, MaxSensorEdges, {})

InitSensor == Init /\ pwmPigpioAvailable /\ sensorPigpioAvailable

SpecSensor == InitSensor /\ [][NextSensor]_vars

(* A freshly enabled sensor whose edges arrive at one constant period. *)
PeriodInputs == {30000, 40000, 100000, 500000, 1000000, 1200000}

NextPeriod ==
    \/ \E p \in SensorPinInputs :
          ~SensorEnabled(DEFAULT_SENSOR) /\ Enable(DEFAULT_SENSOR, p, TRUE)
    \/ \E l \in listeners, T \in PeriodInputs :
          /\ lastOp = "edge" => req.c = T
          /\ EdgeWithin(l, T, MaxPeriodEdges, {})

InitPeriod == InitSensor /\ hwTick = InitialTick \div TICK_UNIT

SpecPeriod == InitPeriod /\ [][NextPeriod]_vars

(* The closed loop whose sensor may be disabled while the controller runs. *)
NextDisabled ==
    \/ \E p \in SensorPinInputs :
          ~SensorEnabled(DEFAULT_SENSOR) /\ Enable(DEFAULT_SENSOR, p, TRUE)
    \/ Disable(DEFAULT_SENSOR)
    \/ \E t \in WindupTargets : Start(t, NULL, DEFAULT_SENSOR)
    \/ \E id \in TimerIds : Tick(id)
    \/ \E l \in listeners, d \in CtlEdgeDeltas : Edge(l, d)

SpecDisabled == InitWindup /\ [][NextDisabled]_vars

(* A controller that is always started on the default pin and whose        *)
(* control pin is changed by set-params only.                              *)
NextParams ==
    \/ \E p \in SensorPinInputs :
          ~SensorEnabled(DEFAULT_SENSOR) /\ Enable(DEFAULT_SENSOR, p, TRUE)
    \/ \E t \in WindupTargets : Start(t, NULL, DEFAULT_SENSOR)
    \/ Stop
    \/ \E p \in CtlPins : SetParams(p, NULL)
    \/ \E id \in TimerIds : Tick(id)

SpecParams == InitWindup /\ [][NextParams]_vars

(* Two commands sent to one ESP32 device, their responses and timeouts in  *)
(* any order.                                                              *)
NextEsp32 ==
    \/ \E c \in CommandIds, open \in BOOLEAN : EspSend(c, open)
    \/ \E c \in CommandIds, success \in BOOLEAN : EspResponse(c, success)
    \/ \E c \in CommandIds : EspTimeout(c)

SpecEsp32 == InitCtl /\ [][NextEsp32]_vars

(* A sensor whose input may fail to open, and a controller started on it.  *)
NextEnable ==
    \/ \E p \in SensorPinInputs, opens \in BOOLEAN :
          ~SensorEnabled(DEFAULT_SENSOR) /\ Enable(DEFAULT_SENSOR, p, opens)
    \/ Disable(DEFAULT_SENSOR)
    \/ \E t \in WindupTargets : Start(t, NULL, DEFAULT_SENSOR)
    \/ Stop
    \/ \E id \in TimerIds : Tick(id)

SpecEnable == InitCtl /\ [][NextEnable]_vars

(* One sensor, enabled and disabled without an overlap, whose edges come   *)
(* at the limits of the debounce and of the window.                        *)
WindowDeltas == {5000, 20000, 25000, 30000, 1000000}

NextWindow ==
    \/ \E p \in SensorPinInputs :
          ~SensorEnabled(DEFAULT_SENSOR) /\ Enable(DEFAULT_SENSOR, p, TRUE)
    \/ Disable(DEFAULT_SENSOR)
    \/ \E l \in listeners, d \in WindowDeltas, fp \in FpOutcomes :
          EdgeWithin(l, d, MaxSensorEdges, fp)

SpecWindow == InitSensor /\ [][NextWindow]_vars

(* The PWM registry on its own, in hardware mode and in simulation mode. *)
RegistryPins == {-1, 18, 28}

NextPwm ==
    \/ \E pin \in RegistryPins, dutyCycle \in DutyInputs,
          frequency \in FrequencyInputs, enabled \in BOOLEAN,
          fail \in {"none", "open", "freq", "write"} :
          PwmSet(pin, dutyCycle, frequency, enabled, fail)
    \/ \E pin \in RegistryPins, fail \in BOOLEAN : PwmStop(pin, fail)
    \/ \E failPin \in RegistryPins \cup {NULL}, done \in SUBSET RegistryPins :
          PwmStopAll(failPin, done)

InitPwm == Init /\ sensorPigpioAvailable /\ hwTick = InitialTick \div TICK_UNIT

SpecPwm == InitPwm /\ [][NextPwm]_vars

(* The registry with three output pins, stopped one at a time, all at once *)
(* or by the shutdown of the process.                                      *)
OutputPins == {12, 18, 19}

NextOutputs ==
    \/ \E pin \in OutputPins, enabled \in BOOLEAN, fail \in {"none", "write"} :
          PwmSet(pin, 100, DEFAULT_FREQUENCY, enabled, fail)
    \/ \E pin \in OutputPins : PwmStop(pin, FALSE)
    \/ \E failPin \in OutputPins \cup {NULL}, done \in SUBSET OutputPins :
          PwmStopAll(failPin, done)
    \/ \E inTime \in BOOLEAN : Shutdown(inTime)

SpecOutputs == InitPwm /\ [][NextOutputs]_vars

(* The registry and the encoder pipeline asked for the same pins. *)
SharedPins == {18, 21}

NextShared ==
    \/ \E pin \in SharedPins, enabled \in BOOLEAN :
          PwmSet(pin, 100, DEFAULT_FREQUENCY, enabled, "none")
    \/ \E pin \in SharedPins : PwmStop(pin, FALSE)
    \/ \E sensor \in SensorInputs, pin \in SharedPins :
          ~SensorEnabled(sensor) /\ Enable(sensor, pin, TRUE)
    \/ \E sensor \in SensorInputs : Disable(sensor)

SpecShared == InitPwm /\ [][NextShared]_vars

----------------------------------------------------------------------------
(* Properties of the controller *)

ctl == rpmControlState

IsCmd(e) == e.type = "cmd"

(* C1: while the controller is active, after every tick outside the        *)
(* deadband the registry holds an entry for control_pin whose duty is the  *)
(* controller's current_pwm.                                               *)
C1_TickWritesRegistry ==
    (lastOp = "tick:pid" /\ ctl.active) =>
        /\ ctl.controlPin \in DOMAIN activePins
        /\ activePins[ctl.controlPin].dutyCycle * SCALE = ctl.currentPWM

(* C2: current_pwm is an integer in [0, 255] in every reachable state of   *)
(* the controller.                                                         *)
C2_PwmRange ==
    /\ ctl.currentPWM >= minPWM * SCALE
    /\ ctl.currentPWM <= maxPWM * SCALE
    /\ ctl.currentPWM % SCALE = 0

(* C3: once stop has returned, and until a start is accepted, no handler   *)
(* that runs later (timer, set_target, set_params) makes the controller    *)
(* issue a PWM command with a non-zero duty.                               *)
C3_NoWriteAfterStop ==
    (stopReturned /\ lastOp # "stop") =>
        \A i \in 1..Len(trace) : IsCmd(trace[i]) => trace[i].duty = 0

C3_Witness ==
    /\ stopReturned
    /\ running
    /\ tickCount > 0
    /\ lastOp = "set-rpm"
    /\ resp = 200
    /\ ctl.targetRPM > 0

(* A duty-0 write reaches the backend for pin before any status broadcast. *)
DrivenLowBeforeBroadcast(tr, pin) ==
    \E i \in 1..Len(tr) :
        /\ tr[i].type = "pwmWrite" /\ tr[i].pin = pin /\ tr[i].duty = 0
        /\ \A j \in 1..i : tr[j].type # "rpmStatus"

(* C4: on every transition from active to not active, control_pin is       *)
(* driven to duty 0 before the status that reports active = false is       *)
(* broadcast.                                                              *)
C4_ZeroBeforeBroadcast ==
    [][(ctl.active /\ ~ctl.active') => DrivenLowBeforeBroadcast(trace', ctl.controlPin)]_vars

(* C5: set_target with target 0 while the controller is active makes it    *)
(* idle: active false, the tick cancelled, PWM 0 commanded on control_pin. *)
C5_ZeroTargetStops ==
    [][(ctl.active /\ lastOp' = "set-rpm" /\ req'.a = 0 /\ req' # req) =>
          /\ ~ctl.active'
          /\ timers' = {}
          /\ \E i \in 1..Len(trace') :
                IsCmd(trace'[i]) /\ trace'[i].pin = ctl.controlPin /\ trace'[i].duty = 0]_vars

(* C6: the controller is active if and only if exactly one tick timer is   *)
(* scheduled, and that timer is the one the controller holds.              *)
C6_ActiveIffOneTimer ==
    /\ ctl.active <=> Cardinality(timers) = 1
    /\ Cardinality(timers) <= 1
    /\ ctl.active => timers = {ctl.controlInterval}
    /\ ~ctl.active => ctl.controlInterval = NULL

C6_Witness ==
    /\ lastOp = "start"
    /\ resp = 200
    /\ ~stopReturned
    /\ tickCount > 0
    /\ ctl.active
    /\ Cardinality(timers) = 1

(* C7: a start is accepted only with target_rpm > 0 and an enabled sensor, *)
(* and a rejected start changes nothing of the controller, the sensors or  *)
(* the registry.                                                           *)
C7_RejectedStartNoChange ==
    [][lastOp' = "start" =>
          IF resp' = 200
          THEN /\ ctl.targetRPM' > 0
               /\ ctl.sensorNumber' \in DOMAIN activeSensors
               /\ activeSensors[ctl.sensorNumber'].enabled
          ELSE /\ resp' = 400
               /\ UNCHANGED <<ctrlVars, sensorVars, activePins>>]_vars

C7_Witness ==
    /\ lastOp = "start"
    /\ resp = 400
    /\ ctl.active
    /\ timers = {ctl.controlInterval}
    /\ ctl.sensorNumber \in DOMAIN activeSensors
    /\ ~activeSensors[ctl.sensorNumber].enabled

(* C8: a start accepted while the controller is active leaves              *)
(* integral_term and sat_timer 0 and one timer, and when it changes        *)
(* control_pin it has commanded duty 0 on the old pin.                     *)
C8_RestartStopsOldPin ==
    [][(ctl.active /\ lastOp' = "start" /\ resp' = 200 /\ ctl' # ctl) =>
          /\ ctl.integralTerm' = 0
          /\ ctl.satTimer' = 0
          /\ Cardinality(timers') = 1
          /\ ctl.controlPin' # ctl.controlPin =>
                \E i \in 1..Len(trace') :
                   /\ trace'[i].type \in {"cmd", "pwmWrite"}
                   /\ trace'[i].pin = ctl.controlPin
                   /\ trace'[i].duty = 0]_vars

(* C9: whenever the controller is active and its error is greater than 0,  *)
(* current_pwm >= kick.                                                    *)
C9_KickFloorAlways ==
    (ctl.active /\ ctl.error > 0) => ctl.currentPWM >= Kick(ctl.targetRPM)

(* C9 as amended: right after a tick outside the deadband whose error is   *)
(* greater than 0, current_pwm >= Math.round(kick).                        *)
C9_KickFloorAfterTick ==
    (lastOp = "tick:pid" /\ ctl.lastError > 0) =>
        ctl.currentPWM >= MathRound(Kick(ctl.targetRPM))

C9_Witness ==
    /\ lastOp = "tick:pid"
    /\ ctl.lastError > 0
    /\ ctl.currentPWM = MathRound(Kick(ctl.targetRPM))
    /\ ctl.currentPWM < Kick(ctl.targetRPM)

(* C10: when no edge arrives between an accepted start and the first tick, *)
(* that tick reads current_rpm = 0 and emits current_pwm >= kick (kick     *)
(* taken as the integer that the output is rounded to).                    *)
C10_FirstTickReadsZero ==
    [][(lastOp = "start" /\ resp = 200 /\ lastOp' \in {"tick:pid", "tick:deadband"}) =>
          /\ ctl.currentRPM' = 0
          /\ ctl.currentPWM' >= MathRound(Kick(ctl.targetRPM'))]_vars

(* The sensor the controller is bound to is known and disabled. *)
BoundSensorDisabled ==
    /\ ctl.sensorNumber \in DOMAIN activeSensors
    /\ ~activeSensors[ctl.sensorNumber].enabled

(* C11: while the controller is active and its sensor is disabled, a tick  *)
(* leaves current_pwm as it was.                                           *)
C11_DisabledSensorKeepsPwm ==
    [][(ctl.active /\ BoundSensorDisabled /\ tickCount' = tickCount + 1) =>
          ctl.currentPWM' = ctl.currentPWM]_vars

(* C12: integral_term lies in [-100, +100] in every reachable state.       *)
C12_IntegralBounded ==
    /\ ctl.integralTerm >= -INTEGRAL_LIMIT * SCALE
    /\ ctl.integralTerm <= INTEGRAL_LIMIT * SCALE

C12_Witness ==
    /\ lastOp = "tick:pid"
    /\ tickCount = 2
    /\ ctl.integralTerm = INTEGRAL_LIMIT * SCALE

----------------------------------------------------------------------------
(* Properties of the encoder pipeline *)

(* The tick of the sensor's last accepted edge, 0 before the first. *)
RECURSIVE MaxOf(_)
MaxOf(S) == IF S = {} THEN 0
            ELSE LET x == CHOOSE y \in S : TRUE IN Max(x, MaxOf(S \ {x}))

LastAcceptedTick == MaxOf({lastEdgeTick[p] : p \in DOMAIN lastEdgeTick})

(* The step is the edge callback of sensor s, which is enabled. *)
EdgeStepOf(s) ==
    /\ lastOp' = "edge"
    /\ edgeCount' = edgeCount + 1
    /\ req'.a = s
    /\ s \in DOMAIN activeSensors
    /\ activeSensors[s].enabled

(* C13: a reset zeroes pulse_count, every later edge of the sensor that    *)
(* comes at least DEBOUNCE_US after the sensor's last accepted edge raises *)
(* it by one, and an edge that comes sooner leaves it alone.               *)
C13_CountsAcceptedEdges ==
    [][\A s \in DOMAIN activeSensors :
          /\ (lastOp' = "reset" /\ req'.a = s) => activeSensors'[s].pulses = 0
          /\ EdgeStepOf(s) =>
                activeSensors'[s].pulses =
                   IF hwTick' - LastAcceptedTick < DEBOUNCE_US \div TICK_UNIT
                   THEN activeSensors[s].pulses
                   ELSE activeSensors[s].pulses + 1]_vars

(* Ticks from a to b on the 32-bit counter. *)
TickDiff(a, b) == (b - a + TICK_WRAP) % TICK_WRAP

(* C14: an edge on the pin of an enabled sensor that comes at least        *)
(* DEBOUNCE_US after the last accepted edge of that pin is accepted and    *)
(* counted, also when the tick counter has wrapped in between.             *)
C14_EdgeAfterDebounceCounts ==
    [][\A s \in DOMAIN activeSensors :
          (/\ EdgeStepOf(s)
           /\ req'.b \in DOMAIN lastEdgeTick
           /\ TickDiff(lastEdgeTick[req'.b], hwTick') >= DEBOUNCE_US \div TICK_UNIT)
          => /\ pulseCounts'[req'.b] = pulseCounts[req'.b] + 1
             /\ lastEdgeTick'[req'.b] = hwTick']_vars

(* C15: unless the step is a reset, a sensor's pulse_count does not        *)
(* decrease.                                                               *)
C15_CountMonotone ==
    [][\A s \in DOMAIN activeSensors :
          lastOp' # "reset" =>
             /\ s \in DOMAIN activeSensors'
             /\ activeSensors'[s].pulses >= activeSensors[s].pulses]_vars

(* C16: a reset of a known sensor zeroes its pulse_count, empties its      *)
(* window and zeroes its filtered_rpm.                                     *)
C16_ResetClearsAll ==
    [][\A s \in DOMAIN activeSensors :
          (lastOp' = "reset" /\ req'.a = s) =>
             /\ activeSensors'[s].pulses = 0
             /\ Get(pulseTimes', activeSensors[s].pin, <<>>) = <<>>
             /\ Get(rpmFilters', activeSensors[s].pin, 0) = 0
             /\ activeSensors'[s].filteredRPM \in {0, NULL}]_vars

(* C17: disable keeps the sensor's pulse_count, and while the sensor is    *)
(* disabled no edge changes its pulse_count, rate or filtered_rpm.         *)
C17_DisabledSensorFrozen ==
    [][\A s \in DOMAIN activeSensors :
          /\ (lastOp' = "disable" /\ req'.a = s) =>
                /\ ~activeSensors'[s].enabled
                /\ activeSensors'[s].pulses = activeSensors[s].pulses
          /\ (~activeSensors[s].enabled /\ lastOp' = "edge") =>
                /\ activeSensors'[s].pulses = activeSensors[s].pulses
                /\ activeSensors'[s].rate = activeSensors[s].rate
                /\ activeSensors'[s].filteredRPM = activeSensors[s].filteredRPM]_vars

C17_Witness ==
    /\ lastOp = "edge"
    /\ req.a \in DOMAIN activeSensors
    /\ ~activeSensors[req.a].enabled
    /\ activeSensors[req.a].pulses > 0
    /\ activeSensors[req.a].filteredRPM > 0

(* 60 / (T * 45) for a period of T microseconds. *)
IdealRPM(T) == FixDiv(60 * 1000000, PULSES_PER_ROTATION * T)

(* C18: from the 20th edge of a sequence of edges at a constant period T,  *)
(* filtered_rpm is within 1% of 60 / (T * 45).                             *)
C18_ConvergesWithin20 ==
    (lastOp = "edge" /\ edgeCount >= 20) =>
        LET f == Get(rpmFilters, req.b, 0)
            r == IdealRPM(req.c)
        IN  Abs(f - r) * 100 <= r

-----------------------------------------------------------------------------
(* Properties of the PWM registry *)

(* C19: pwm.set accepts exactly the inputs with 0 <= pin <= 27,            *)
(* 0 <= duty <= 255 and 1 <= frequency <= 8000; a rejected call makes no   *)
(* backend call and leaves the registry unchanged.                         *)
C19_SetValidates ==
    [][lastOp' = "pwm/set" =>
          LET inRange == /\ req'.a \in 0..27
                         /\ req'.b \in 0..255
                         /\ req'.c \in 1..8000
          IN  /\ (resp' # 400) <=> inRange
              /\ ~inRange => (trace' = <<>> /\ activePins' = activePins)]_vars

C19_Witness ==
    /\ lastOp = "pwm/set"
    /\ resp = 400
    /\ req.a = 18 /\ req.b = 255 /\ req.c = 8001
    /\ 18 \in DOMAIN activePins
    /\ activePins[18].frequency = 8000

(* C20: after a successful pwm.set(pin, duty, freq), pwm.status reports    *)
(* exactly one entry for that pin, with that duty and that frequency, in   *)
(* hardware mode and in simulation mode.                                   *)
C20_StatusReportsSet ==
    (lastOp = "pwm/set" /\ resp = 200) =>
        LET entries == {e \in activePinsList : e.pin = req.a}
        IN  /\ Cardinality(entries) = 1
            /\ \A e \in entries : e.dutyCycle = req.b /\ e.frequency = req.c

(* A hardware-mode set that disables the pin: the backend is driven to 0  *)
(* and the entry keeps the requested duty.                                 *)
C20_Witness ==
    /\ lastOp = "pwm/set"
    /\ resp = 200
    /\ pwmPigpioAvailable
    /\ req.d = 0 /\ req.b = 255 /\ req.c = 1
    /\ trace = <<Ev("pwmWrite", req.a, 0, FALSE)>>
    /\ \E e \in activePinsList : e.pin = req.a /\ ~e.enabled /\ e.dutyCycle = 255

(* The pins that a trace names in events of one type with one duty. *)
PinsOf(out, type, duty) ==
    {out[i].pin : i \in {j \in DOMAIN out : out[j].type = type /\ out[j].duty = duty}}

C22_StopAllWritesZero ==
    [][(lastOp' = "pwm/stop-all" /\ resp' = 200) =>
          DOMAIN activePins \subseteq PinsOf(trace', "pwmWrite", 0)]_vars

(* C23: a successful pwm.set publishes a PwmUpdated event for its pin and  *)
(* duty, and stop_all publishes one PwmUpdated event for each pin it       *)
(* stops.                                                                  *)
C23_PwmUpdatedPublished ==
    /\ (lastOp = "pwm/set" /\ resp = 200) =>
          req.a \in PinsOf(trace, "pwmUpdate", req.b)
    /\ (lastOp = "pwm/stop-all" /\ resp = 200) =>
          PinsOf(trace, "stopped", 0) \subseteq PinsOf(trace, "pwmUpdate", 0)

(* C27: when the process exits, no registry entry is left and every entry  *)
(* that held a backend handle has been written to duty 0.                  *)
C27_ShutdownReleasesAll ==
    [][(running /\ ~running') =>
          /\ activePins' = EmptyMap
          /\ {pin \in DOMAIN activePins : HasHandle(pin)}
                 \subseteq PinsOf(trace', "pwmWrite", 0)]_vars

(* C24: pwm.stop on a valid pin without a registry entry does not report   *)
(* success; pwm.stop that succeeds on a known pin removes the entry and,   *)
(* where the entry holds a backend handle, writes duty 0 to the pin.       *)
C24_StopUnknownPinFails ==
    [][(lastOp' = "pwm/stop" /\ req'.a \in 0..27) =>
          IF req'.a \notin DOMAIN activePins
          THEN resp' # 200
          ELSE resp' = 200 =>
                  /\ req'.a \notin DOMAIN activePins'
                  /\ HasHandle(req'.a) =>
                        req'.a \in PinsOf(trace', "pwmWrite", 0)]_vars

(* C25: a pwm.set whose pin, duty, frequency and enabled equal the entry   *)
(* stored for the pin makes no backend frequency or duty write and leaves  *)
(* the registry unchanged.                                                 *)
C25_SetIdempotent ==
    [][(/\ lastOp' = "pwm/set"
        /\ resp' = 200
        /\ req'.a \in DOMAIN activePins
        /\ activePins[req'.a].dutyCycle = req'.b
        /\ activePins[req'.a].frequency = req'.c
        /\ activePins[req'.a].enabled = (req'.d = 1))
       => /\ trace' = <<>>
          /\ activePins' = activePins]_vars

-----------------------------------------------------------------------------
(* Properties of pin ownership *)

(* C26: no pin is at once in the PWM registry and the pin of an enabled    *)
(* encoder sensor, and no pwm.set or sensor.enable is accepted that makes  *)
(* it so.                                                                  *)
C26_PinOwnedOnce ==
    \A sensor \in DOMAIN activeSensors :
        activeSensors[sensor].enabled =>
            activeSensors[sensor].pin \notin DOMAIN activePins

-----------------------------------------------------------------------------
(* Properties of the control loop *)

(* C28: every stop leaves the controller Idle (not active, no timer,       *)
(* current_pwm 0, integral_term 0, sat_timer 0), and a stop of an Idle     *)
(* controller, a second stop in a row included, leaves the controller      *)
(* state and the timers as they were.                                      *)
C28_StopIdempotent ==
    [][lastOp' = "stop" =>
          /\ ~ctl.active'
          /\ ctl.controlInterval' = NULL
          /\ timers' = {}
          /\ ctl.currentPWM' = 0
          /\ ctl.integralTerm' = 0
          /\ ctl.satTimer' = 0
          /\ ~ctl.active => (rpmControlState' = rpmControlState /\ timers' = timers)]_vars

(* A stop of a controller that was never started, after a tick-free        *)
(* history that is not just the initial state.                             *)
C28_Witness ==
    /\ lastOp = "stop"
    /\ ctl.targetRPM = 0
    /\ ~ctl.active
    /\ SensorEnabled(DEFAULT_SENSOR)

(* The RPM that the next tick reads. *)
TickReading ==
    calculateCurrentRPM(
        [rpmControlState EXCEPT
            !.sinceUpdate = IF @ = NULL THEN NULL ELSE @ + UPDATE_RATE],
        activeSensors).ret

(* C29: a tick whose |error| is below 1.0 RPM leaves current_pwm,          *)
(* integral_term, last_error and sat_timer unchanged and issues no PWM     *)
(* command; it stores the error and publishes the status.                  *)
C29_DeadbandTickFrame ==
    [][(/\ ctl.active
        /\ tickCount' = tickCount + 1
        /\ Abs(ctl.targetRPM - TickReading) < 1 * SCALE)
       => /\ ctl.currentPWM' = ctl.currentPWM
          /\ ctl.integralTerm' = ctl.integralTerm
          /\ ctl.lastError' = ctl.lastError
          /\ ctl.satTimer' = ctl.satTimer
          /\ \A i \in DOMAIN trace' : trace'[i].type = "rpmStatus"
          /\ trace' # <<>>
          /\ ctl.error' = Round10(ctl.targetRPM - TickReading)]_vars

C29_Witness ==
    /\ lastOp = "tick:deadband"
    /\ ctl.active
    /\ ctl.currentPWM > 0
    /\ ctl.error # 0
    /\ ctl.lastError # ctl.error

(* C30: on a tick outside the deadband, sat_timer grows by dt when the new *)
(* current_pwm is 0 or 255 and is 0 otherwise, and integral_term is the    *)
(* clamped sum times 0.7 exactly when the new sat_timer exceeds 0.25 s;    *)
(* with target 200 RPM and no pulses, from 500 ms of saturation at 255 on  *)
(* the integral_term is below the sum of ki * error * dt over those ticks. *)
C30_AntiWindup ==
    [][(lastOp' = "tick:pid" /\ tickCount' = tickCount + 1) =>
          LET sum == ClampIntegral(ctl.integralTerm
                        + MulDiv(Gains(ctl.targetRPM).kidt10000, ctl.lastError', 10000))
              saturated == ctl.currentPWM' \in {0, 255 * SCALE}
          IN  /\ ctl.satTimer' = IF saturated THEN ctl.satTimer + 100 ELSE 0
              /\ ctl.integralTerm' = IF ctl.satTimer' > 250
                                      THEN (sum * 7) \div 10 ELSE sum
              /\ (/\ ctl.targetRPM = 200 * SCALE
                  /\ ctl.lastError' = 200 * SCALE
                  /\ ctl.currentPWM' = 255 * SCALE
                  /\ ctl.satTimer' >= 500
                  /\ ctl.satTimer' = tickCount' * 100)
                 => ctl.integralTerm' < tickCount' * 7 * SCALE]_vars

C30_Witness ==
    /\ lastOp = "tick:pid"
    /\ ctl.targetRPM = 200 * SCALE
    /\ ctl.currentPWM = 255 * SCALE
    /\ ctl.satTimer = 500
    /\ tickCount = 5
    /\ ctl.integralTerm > 0

(* C31: the first tick after start, when it is outside the deadband, has a *)
(* derivative term of 0, also when set-rpm changed the target between the  *)
(* start and that tick.                                                    *)
C31_FirstTickNoDerivative ==
    [][(tickCount = 0 /\ tickCount' = 1 /\ lastOp' = "tick:pid") =>
          req'.a = 0]_vars

-----------------------------------------------------------------------------
(* Properties of the rolling window *)

(* The step is an edge that passed the debounce on its pin. *)
AcceptedEdge ==
    /\ lastOp' = "edge"
    /\ edgeCount' = edgeCount + 1
    /\ req'.b \in DOMAIN pulseCounts'
    /\ pulseCounts'[req'.b] = Get(pulseCounts, req'.b, 0) + 1

(* The span in microseconds of the window that the edge leaves. *)
SpanAfter ==
    LET w == pulseTimes'[req'.b] IN (w[Len(w)] - w[1]) * TICK_UNIT

(* instant_rpm of the window that the edge leaves. *)
InstantAfter == InstantRPM(Len(pulseTimes'[req'.b]) - 1, SpanAfter)

(* C32: on an accepted edge filtered_rpm is recomputed when the window     *)
(* holds at least 2 timestamps and spans at least 0.025 s, the boundary    *)
(* included; otherwise the filter and the sensor's filtered_rpm keep their *)
(* values.                                                                 *)
C32_RecomputedIffQualifies ==
    [][AcceptedEdge =>
          LET pin == req'.b
              s == req'.a
          IN  IF Len(pulseTimes'[pin]) >= 2 /\ SpanAfter >= 25000
              THEN rpmFilters'[pin] =
                      (6 * Get(rpmFilters, pin, InstantAfter) + 4 * InstantAfter) \div 10
              ELSE /\ pin \in DOMAIN rpmFilters => rpmFilters'[pin] = rpmFilters[pin]
                   /\ activeSensors[s].filteredRPM # NULL =>
                         activeSensors'[s].filteredRPM = activeSensors[s].filteredRPM]_vars

(* C33: on the first accepted edge after enable whose window is longer     *)
(* than 0.025 s, filtered_rpm becomes instant_rpm; on every later one it   *)
(* becomes 0.6 * previous + 0.4 * instant_rpm.                             *)
C33_FilterSeeded ==
    [][(AcceptedEdge /\ Len(pulseTimes'[req'.b]) >= 2 /\ SpanAfter > 25000) =>
          LET prev == activeSensors[req'.a].filteredRPM
          IN  activeSensors'[req'.a].filteredRPM =
                 IF prev = NULL \/ prev = 0
                 THEN InstantAfter
                 ELSE (6 * prev + 4 * InstantAfter) \div 10]_vars

(* C34: after an accepted edge the window of the pin holds strictly        *)
(* increasing timestamps, its last element is the tick of that edge, and   *)
(* no element is more than 1.0 s older than the last.                      *)
C34_WindowOrdered ==
    [][AcceptedEdge =>
          LET w == pulseTimes'[req'.b]
          IN  /\ Len(w) >= 1
              /\ w[Len(w)] = hwTick'
              /\ \A i \in 1..(Len(w) - 1) : w[i] < w[i + 1]
              /\ \A i \in 1..Len(w) : (w[Len(w)] - w[i]) * TICK_UNIT <= 1000000]_vars

(* The third accepted edge of a pin, which evicted the first. *)
C34_Witness ==
    /\ lastOp = "edge"
    /\ req.b \in DOMAIN pulseTimes
    /\ Get(pulseCounts, req.b, 0) = 3
    /\ Len(pulseTimes[req.b]) = 2
    /\ pulseTimes[req.b][2] = hwTick

-----------------------------------------------------------------------------
(* Properties of the control pin *)

-----------------------------------------------------------------------------
(* Properties of the edge callbacks *)

(* C36: at most one edge callback is live per sensor: an edge on a pin     *)
(* that is not the pin of the sensor's latest enable leaves the sensor's   *)
(* pulse_count, rate and filtered_rpm as they were.                        *)
C36_OneLiveCallback ==
    [][(lastOp' = "edge" /\ req'.a \in DOMAIN activeSensors
          /\ activeSensors[req'.a].pin # req'.b)
       => activeSensors' = activeSensors]_vars

-----------------------------------------------------------------------------
(* Properties of failing commands *)

(* C37: an enable that fails on a sensor that was not enabled leaves it    *)
(* not enabled, so that the status does not report it as enabled and a     *)
(* start on it is rejected.                                                *)
C37_FailedEnableNotEnabled ==
    [][(lastOp' = "enable" /\ resp' # 200 /\ ~SensorEnabled(req'.a)) =>
          /\ ~(req'.a \in DOMAIN activeSensors' /\ activeSensors'[req'.a].enabled)]_vars

(* C38: a pwm.set that fails at the backend in hardware mode reports an    *)
(* error and leaves the registry as it was before the call.                *)
C38_FailedSetLeavesRegistry ==
    [][(lastOp' = "pwm/set" /\ resp' = 500 /\ pwmPigpioAvailable)
       => activePins' = activePins]_vars

-----------------------------------------------------------------------------
(* Properties of the ESP32 commands *)

(* C39: a response that arrives while its command is outstanding resolves  *)
(* or rejects that command, whatever the order of the responses, so that   *)
(* no command whose response was delivered times out; and once every       *)
(* command sent has had its response the socket's original handler is      *)
(* back.                                                                   *)
C39_ResolvedByOwnResponse ==
    [][lastOp' = "esp/response" =>
          /\ esp32.outcome[req'.a] = "pending" =>
                esp32'.outcome[req'.a] =
                   IF req'.b = 1 THEN "resolved" ELSE "rejected"
          /\ esp32'.wire = {} => esp32'.onmessage = ORIGINAL]_vars

====
